---- MODULE Spec2Model ----
(***************************************************************************)
(* A model of llvm/lib/Target/NVPTX/NVPTXCtorDtorLowering.cpp.             *)
(*                                                                         *)
(* Three state machines share this module:                                 *)
(*   Spec        the pass itself: lowerCtorsAndDtors rewriting one module, *)
(*               statement by statement, run up to MaxRuns times;          *)
(*   SpecKernel  the body built by createInitOrFiniCalls, executed block   *)
(*               by block on the boundary values the loader stored;        *)
(*   SpecName    the entry-global name computed in createInitOrFiniGlobals *)
(*               for two records of one metadata array.                    *)
(* Each specification keeps the variables of the other two at rest.        *)
(***************************************************************************)
EXTENDS Integers, Sequences, FiniteSets, TLC

VARIABLES
  \* ---- the synthesized kernel at run time (SpecKernel)
  kIsCtor,    \* the IsCtor flag the body was built with
  startVal,   \* value the loader stored in __init/__fini_array_start
  endVal,     \* value the loader stored in __init/__fini_array_end
  kpc,        \* basic block about to run: idle, entry, while.entry, while.end, ret
  ptr,        \* the phi "ptr" of while.entry
  stop,       \* EndVal as used by the loop's exit test
  called      \* slot addresses whose callback was loaded and called, in order

kernelVars == <<kIsCtor, startVal, endVal, kpc, ptr, stop, called>>

VARIABLES
  \* ---- naming two records of one metadata array (SpecName)
  nIsCtor,    \* kind of the array the two records belong to
  nId,        \* GlobalID: the override string or the hash of the source file name
  nRecA,      \* a record: [fn |-> name of the target function, prio |-> priority]
  nRecB,      \* another record of the same array
  nNameA,     \* NameStr computed for nRecA
  nNameB,     \* NameStr computed for nRecB
  nSecA,      \* section computed for record A
  npc         \* idle, start, named

nameVars == <<nIsCtor, nId, nRecA, nRecB, nNameA, nNameB, nSecA, npc>>

VARIABLES
  \* ---- the pass rewriting one module (Spec)
  CreateKernels,  \* the option nvptx-emit-init-fini-kernel
  globalArray,    \* [IsCtor -> llvm.global_ctors / llvm.global_dtors]
  kernelFn,       \* [IsCtor -> the function nvptx$device$init / nvptx$device$fini]
  entries,        \* the entry-globals of the module, in creation order
  used,           \* llvm.used: names appended by appendToUsed
  boundary,       \* [boundary name -> the global of that name]
  pc,             \* statement of the driver about to run
  curIsCtor,      \* IsCtor of the createInitOrFiniKernel call in progress
  idx,            \* index of the next record in the loop over GA->operands()
  ret,            \* value the current createInitOrFiniKernel call returns
  Modified,       \* the local of lowerCtorsAndDtors
  result,         \* value the last finished lowerCtorsAndDtors returned
  runs,           \* number of finished runs of lowerCtorsAndDtors
  array0,         \* history: globalArray as first found
  moduleAtRun,    \* history: the module when the current or last run began
  moduleAtKind,   \* history: the module when the current or last kind began
  created         \* history: what the pass created, in order of creation

moduleVars == <<globalArray, kernelFn, entries, used, boundary>>
passVars == <<CreateKernels, moduleVars, pc, curIsCtor, idx, ret, Modified, result,
              runs, array0, moduleAtRun, moduleAtKind, created>>

VARIABLES
  \* ---- one call of strncpy (SpecStrncpy)
  dest,       \* the bytes dest points to, by index; <<>> when dest is null
  src,        \* the bytes src points to, by index; <<>> when src is null
  count,      \* the argument n
  pos,        \* the local i
  spc,        \* idle, check, copy, pad, return, done, crashed
  dest0,      \* history: dest as the call found it
  srcRead,    \* history: the indices of src that were read
  written,    \* history: the indices of dest that were written, in order
  checks,     \* history: number of null-pointer checks performed
  retval      \* the pointer returned

strVars == <<dest, src, count, pos, spc, dest0, srcRead, written, checks, retval>>

vars == <<kernelVars, nameVars, passVars, strVars>>

(***************************************************************************)
(* Pointers.  The target's pointers are 64 bits wide; the model keeps the  *)
(* modular arithmetic and scales the width down to AddrBits bits.          *)
(***************************************************************************)
AddrBits == 6
AddrMod == 2 ^ AddrBits

\* Slots are pointer sized: the byte distance is shifted right by 3.
SlotShift == 3
SlotSize == 2 ^ SlotShift

AlignedAddrs == {a \in 0 .. AddrMod - 1 : a % SlotSize = 0}

\* The loop of a kernel is cut off after this many calls (more than the
\* address space has slots, so a walk that wraps around is seen to wrap).
MaxCalls == (AddrMod \div SlotSize) + 2

ToSigned(x) == IF x >= AddrMod \div 2 THEN x - AddrMod ELSE x
ToUnsigned(x) == ((x % AddrMod) + AddrMod) % AddrMod

\* IRB.CreateSub on i64
Sub(a, b) == ToUnsigned(a - b)

\* IRB.CreateAShr: arithmetic shift right of the signed value
AShr(x, k) == ToUnsigned(ToSigned(x) \div (2 ^ k))

\* getelementptr ptr, base, off: base + off * sizeof(ptr), off signed
GEP(base, off) == ToUnsigned(base + SlotSize * off)

\* icmp predicates used by the body
ICmpNE(a, b) == a # b
ICmpEQ(a, b) == a = b
ICmpUGT(a, b) == a > b
ICmpULT(a, b) == a < b

(***************************************************************************)
(* createInitOrFiniCalls, entry block.                                     *)
(***************************************************************************)
\* "start" of the reverse walk: begin + ((end - begin) >> 3) - 1 slot
FiniValuePtr(b, e) == GEP(b, ToSigned(AShr(Sub(e, b), SlotShift)))
FiniBegin(b, e) == GEP(FiniValuePtr(b, e), -1)

\* BeginVal and EndVal as they reach the entry block's compare
BeginValOf(isCtor, b, e) == IF isCtor THEN b ELSE FiniBegin(b, e)
EndValOf(isCtor, b, e) == IF isCtor THEN e ELSE b

\* the entry block's compare: TRUE enters while.entry
EntryCmp(isCtor, b, s) == IF isCtor THEN ICmpNE(b, s) ELSE ICmpUGT(b, s)

\* The inbounds GEP by -1 slot yields poison when it steps below address 0
\* (a wrap of the address space); the branch on it is then undefined.
EntryPoison(isCtor, b, e) == ~isCtor /\ FiniValuePtr(b, e) < SlotSize

KernelEntry ==
  /\ kpc = "entry"
  /\ LET b == BeginValOf(kIsCtor, startVal, endVal)
         s == EndValOf(kIsCtor, startVal, endVal)
     IN /\ ptr' = b
        /\ stop' = s
        /\ \E taken \in BOOLEAN :
             /\ EntryPoison(kIsCtor, startVal, endVal) \/ taken = EntryCmp(kIsCtor, b, s)
             /\ kpc' = IF taken THEN "while.entry" ELSE "while.end"
  /\ UNCHANGED <<kIsCtor, startVal, endVal, called, nameVars, passVars, strVars>>

(***************************************************************************)
(* createInitOrFiniCalls, loop block while.entry.                          *)
(***************************************************************************)
NextPtr(isCtor, p) == GEP(p, IF isCtor THEN 1 ELSE -1)

\* EndCmp with the forward walk leaving only once it is past the stop value
EndCmp_PastStop(isCtor, n, s) == IF isCtor THEN ICmpUGT(n, s) ELSE ICmpULT(n, s)

\* the loop's exit test "end": TRUE leaves the loop
EndCmp(isCtor, n, s) == IF isCtor THEN ICmpEQ(n, s) ELSE ICmpULT(n, s)

KernelLoop ==
  /\ kpc = "while.entry"
  /\ Len(called) < MaxCalls
  /\ called' = Append(called, ptr)
  /\ ptr' = NextPtr(kIsCtor, ptr)
  /\ kpc' = IF EndCmp(kIsCtor, NextPtr(kIsCtor, ptr), stop) THEN "while.end" ELSE "while.entry"
  /\ UNCHANGED <<kIsCtor, startVal, endVal, stop, nameVars, passVars, strVars>>

\* while.end: ret void
KernelRet ==
  /\ kpc = "while.end"
  /\ kpc' = "ret"
  /\ UNCHANGED <<kIsCtor, startVal, endVal, ptr, stop, called, nameVars, passVars, strVars>>

KernelIdle ==
  /\ kIsCtor = TRUE /\ startVal = 0 /\ endVal = 0
  /\ kpc = "idle" /\ ptr = 0 /\ stop = 0 /\ called = <<>>

\* The loader has stored two pointer-aligned boundary values.
InitKernel ==
  /\ kIsCtor \in BOOLEAN
  /\ startVal \in AlignedAddrs
  /\ endVal \in AlignedAddrs
  /\ kpc = "entry" /\ ptr = 0 /\ stop = 0 /\ called = <<>>

KernelNext == KernelEntry \/ KernelLoop \/ KernelRet

(***************************************************************************)
(* Entry-global names.  A string is a sequence of one-character strings.   *)
(***************************************************************************)
DigitChars == <<"0", "1", "2", "3", "4", "5", "6", "7", "8", "9">>

RECURSIVE DecDigits(_)
DecDigits(n) == IF n < 10 THEN <<n>> ELSE Append(DecDigits(n \div 10), n % 10)

\* 2^64 = 18446744073709551616, digit by digit
TwoPow64 == <<1, 8, 4, 4, 6, 7, 4, 4, 0, 7, 3, 7, 0, 9, 5, 5, 1, 6, 1, 6>>

PadLeft(d, L) == [i \in 1 .. L |-> IF i <= L - Len(d) THEN 0 ELSE d[i - (L - Len(d))]]

\* a - b on digit sequences of equal length, a >= b: the digits 1 .. i, with
\* a borrow coming from digit i + 1
RECURSIVE SubFrom(_, _, _, _)
SubFrom(a, b, i, borrow) ==
  IF i = 0 THEN <<>>
  ELSE LET d == a[i] - b[i] - borrow
       IN Append(SubFrom(a, b, i - 1, IF d < 0 THEN 1 ELSE 0), (d + 10) % 10)

SubDigits(a, b) == SubFrom(a, b, Len(a), 0)

\* uint64_t Priority = getSExtValue(): a negative p becomes 2^64 - |p|
UInt64Digits(p) ==
  IF p >= 0 THEN DecDigits(p)
  ELSE SubDigits(TwoPow64, PadLeft(DecDigits(-p), Len(TwoPow64)))

\* std::to_string(Priority)
RECURSIVE DigitString(_)
DigitString(d) ==
  IF d = <<>> THEN <<>> ELSE <<DigitChars[Head(d) + 1]>> \o DigitString(Tail(d))
PriorityToString(p) == DigitString(UInt64Digits(p))

InitPrefix == <<"_", "_", "i", "n", "i", "t", "_", "a", "r", "r", "a", "y", "_",
                "o", "b", "j", "e", "c", "t", "_">>
FiniPrefix == <<"_", "_", "f", "i", "n", "i", "_", "a", "r", "r", "a", "y", "_",
                "o", "b", "j", "e", "c", "t", "_">>

\* llvm::transform(NameStr, ..., c == '.' ? '_' : c)
ReplaceDot(c) == IF c = "." THEN "_" ELSE c
Transform(str) == [i \in 1 .. Len(str) |-> ReplaceDot(str[i])]

\* NameStr without the priority
NameStr_NoPriority(isCtor, fn, id, prio) ==
  Transform((IF isCtor THEN InitPrefix ELSE FiniPrefix) \o fn \o <<"_">> \o id)

NameStr(isCtor, fn, id, prio) ==
  Transform((IF isCtor THEN InitPrefix ELSE FiniPrefix)
            \o fn \o <<"_">> \o id \o <<"_">> \o PriorityToString(prio))

InitSection == <<".", "i", "n", "i", "t", "_", "a", "r", "r", "a", "y">>
FiniSection == <<".", "f", "i", "n", "i", "_", "a", "r", "r", "a", "y">>

\* PriorityStr = "." + std::to_string(Priority), appended to the section
SectionStr(isCtor, prio) ==
  (IF isCtor THEN InitSection ELSE FiniSection) \o <<".">> \o PriorityToString(prio)

\* Names of target functions: strings over NameChars, 1 .. MaxNameLen long.
MaxNameLen == 2
NameChars == {"f", "1", ".", "_"}
RECURSIVE StringsUpTo(_)
StringsUpTo(n) ==
  IF n = 0 THEN {<<>>}
  ELSE StringsUpTo(n - 1) \cup
       {Append(w, c) : w \in {v \in StringsUpTo(n - 1) : Len(v) = n - 1}, c \in NameChars}
FnNames == StringsUpTo(MaxNameLen) \ {<<>>}

\* Priorities of records (i64, sign-extended).
Priorities == {-1, 1, 10}

\* GlobalID: an override given on the command line, or the lowercase hex hash.
GlobalIDs == {<<"x", "_", "1">>, <<"1", "f">>}

\* Lines 184-206 for two records of the array.
NameRecords ==
  /\ npc = "start"
  /\ nNameA' = NameStr(nIsCtor, nRecA.fn, nId, nRecA.prio)
  /\ nSecA' = SectionStr(nIsCtor, nRecA.prio)
  /\ nNameB' = NameStr(nIsCtor, nRecB.fn, nId, nRecB.prio)
  /\ npc' = "named"
  /\ UNCHANGED <<nIsCtor, nId, nRecA, nRecB, kernelVars, passVars, strVars>>

NameIdle ==
  /\ nIsCtor = TRUE /\ nId = <<>> /\ nRecA = [fn |-> <<>>, prio |-> 0]
  /\ nRecB = [fn |-> <<>>, prio |-> 0] /\ nNameA = <<>> /\ nNameB = <<>>
  /\ nSecA = <<>> /\ npc = "idle"

InitName ==
  /\ nIsCtor \in BOOLEAN
  /\ nId \in GlobalIDs
  /\ nRecA \in [fn : FnNames, prio : Priorities]
  /\ nRecB \in [fn : FnNames, prio : Priorities]
  /\ nNameA = <<>> /\ nNameB = <<>> /\ nSecA = <<>> /\ npc = "start"

(***************************************************************************)
(* The module.                                                             *)
(***************************************************************************)
\* The pass is run on one module at most MaxRuns times.
MaxRuns == 2
\* A metadata array holds at most MaxRecords records.
MaxRecords == 2

\* Records {i64 priority, ptr function, ptr data} a metadata array may hold.
Records ==
  { [prio |-> 1, fn |-> <<"f">>, data |-> "null"],
    [prio |-> 65535, fn |-> <<"g", ".", "h">>, data |-> "obj"] }

RECURSIVE SeqsUpTo(_, _)
SeqsUpTo(S, n) ==
  IF n = 0 THEN {<<>>}
  ELSE SeqsUpTo(S, n - 1) \cup
       {Append(w, x) : w \in {v \in SeqsUpTo(S, n - 1) : Len(v) = n - 1}, x \in S}

\* The global llvm.global_ctors / llvm.global_dtors:
\*   absent    no global of that name;
\*   declared  a global without initializer;
\*   notarray  an initializer that is no ConstantArray (zeroinitializer, undef);
\*   array     a ConstantArray initializer with operands recs;
\*   erased    removed by eraseFromParent.
NoArray(st) == [state |-> st, recs |-> <<>>]
ArrayStates ==
  {NoArray("absent"), NoArray("declared"), NoArray("notarray")}
  \cup {[state |-> "array", recs |-> r] : r \in SeqsUpTo(Records, MaxRecords)}

NoFn == [exists |-> FALSE, byPass |-> FALSE, linkage |-> "none", attrs |-> {},
         cc |-> "none", body |-> "none"]
\* a function of the entry point's name that the module already holds
ForeignFn == [exists |-> TRUE, byPass |-> FALSE, linkage |-> "external", attrs |-> {},
              cc |-> "C", body |-> "foreign"]

\* BoundaryName with the kind ignored: always the names of the init array
BoundaryName_AlwaysInit(isCtor, isStart) ==
  IF isStart THEN "__init_array_start" ELSE "__init_array_end"

BoundaryName(isCtor, isStart) ==
  IF isCtor THEN (IF isStart THEN "__init_array_start" ELSE "__init_array_end")
  ELSE (IF isStart THEN "__fini_array_start" ELSE "__fini_array_end")
BoundaryNames == {BoundaryName(c, s) : c \in BOOLEAN, s \in BOOLEAN}

NoGlobal == [exists |-> FALSE, byPass |-> FALSE, init |-> "none", isConstant |-> FALSE,
             linkage |-> "none", visibility |-> "none"]
\* a global of a boundary's name that the module already holds
ForeignGlobal == [exists |-> TRUE, byPass |-> FALSE, init |-> "foreign", isConstant |-> TRUE,
                  linkage |-> "external", visibility |-> "default"]

\* Boundary globals the module may hold before the first run: none, the
\* start of one kind only, or all four.
ForeignBoundarySets ==
  {{}} \cup {{BoundaryName(c, TRUE)} : c \in BOOLEAN} \cup {BoundaryNames}

Module ==
  [arrays |-> globalArray, fns |-> kernelFn, entries |-> entries, used |-> used,
   boundary |-> boundary]

\* GlobalID of the module: GlobalStr is empty, so the hash of the source file name.
ModuleID == <<"1", "f">>

(***************************************************************************)
(* lowerCtorsAndDtors, line 237: a run begins.                             *)
(***************************************************************************)
RunPass ==
  /\ pc = "idle"
  /\ runs < MaxRuns
  /\ Modified' = FALSE
  /\ curIsCtor' = TRUE
  /\ pc' = "lookup"
  /\ moduleAtRun' = Module
  /\ moduleAtKind' = Module
  /\ UNCHANGED <<kernelVars, nameVars, strVars>>
  /\ UNCHANGED <<created, CreateKernels, moduleVars, idx, ret, result, runs, array0>>

(***************************************************************************)
(* createInitOrFiniKernel, lines 216-218.                                  *)
(***************************************************************************)
\* !GV || !GV->hasInitializer()
LookupFails(a) == a.state \in {"absent", "erased", "declared"}

LookupArray ==
  /\ pc = "lookup"
  /\ IF LookupFails(globalArray[curIsCtor])
       THEN ret' = FALSE /\ pc' = "return"
       ELSE ret' = ret /\ pc' = "globals"
  /\ UNCHANGED <<kernelVars, nameVars, strVars>>
  /\ UNCHANGED <<created, CreateKernels, moduleVars, curIsCtor, idx, Modified, result, runs,
                 array0, moduleAtRun, moduleAtKind>>

(***************************************************************************)
(* createInitOrFiniGlobals, lines 177-179.                                 *)
(***************************************************************************)
\* ArrayRejected without the test for zero operands
ArrayRejected_NoCount(a) == a.state # "array"

\* !GA || GA->getNumOperands() == 0
ArrayRejected(a) == a.state # "array" \/ Len(a.recs) = 0

CheckArray ==
  /\ pc = "globals"
  /\ IF ArrayRejected(globalArray[curIsCtor])
       THEN ret' = FALSE /\ pc' = "return" /\ idx' = idx
       ELSE ret' = ret /\ pc' = "materialize" /\ idx' = 1
  /\ UNCHANGED <<kernelVars, nameVars, strVars>>
  /\ UNCHANGED <<created, CreateKernels, moduleVars, curIsCtor, Modified, result, runs,
                 array0, moduleAtRun, moduleAtKind>>

(***************************************************************************)
(* createInitOrFiniGlobals, lines 184-209: one iteration of the loop.      *)
(***************************************************************************)
\* EntryGlobal initialized with the record's third field instead of its second
EntryGlobal_InitFromData(isCtor, rec) ==
  [isCtor |-> isCtor,
   name |-> NameStr(isCtor, rec.fn, ModuleID, rec.prio),
   init |-> <<rec.data>>,
   isConstant |-> TRUE,
   linkage |-> "external",
   addrSpace |-> 4,
   section |-> SectionStr(isCtor, rec.prio),
   visibility |-> "protected"]

\* new GlobalVariable(M, F->getType(), true, ExternalLinkage, F, NameStr, ..., 4)
EntryGlobal(isCtor, rec) ==
  [isCtor |-> isCtor,
   name |-> NameStr(isCtor, rec.fn, ModuleID, rec.prio),
   init |-> rec.fn,
   isConstant |-> TRUE,
   linkage |-> "external",
   addrSpace |-> 4,
   section |-> SectionStr(isCtor, rec.prio),
   visibility |-> "protected"]

MaterializeRecord ==
  /\ pc = "materialize"
  /\ idx <= Len(globalArray[curIsCtor].recs)
  /\ LET g == EntryGlobal(curIsCtor, globalArray[curIsCtor].recs[idx])
     IN /\ entries' = Append(entries, g)
        /\ used' = Append(used, g.name)
  /\ idx' = idx + 1
  /\ UNCHANGED <<kernelVars, nameVars, strVars>>
  /\ UNCHANGED <<created, CreateKernels, globalArray, kernelFn, boundary, pc, curIsCtor, ret,
                 Modified, result, runs, array0, moduleAtRun, moduleAtKind>>

\* MaterializeDone with the return inside the loop: it leaves after one record
MaterializeDone_FirstRecord ==
  /\ pc = "materialize"
  /\ idx > 1
  /\ pc' = "kernels"
  /\ UNCHANGED <<kernelVars, nameVars, strVars>>
  /\ UNCHANGED <<created, CreateKernels, moduleVars, curIsCtor, idx, ret, Modified, result,
                 runs, array0, moduleAtRun, moduleAtKind>>

\* line 211: the loop is over, createInitOrFiniGlobals returns true (line 220)
MaterializeDone ==
  /\ pc = "materialize"
  /\ idx > Len(globalArray[curIsCtor].recs)
  /\ pc' = "kernels"
  /\ UNCHANGED <<kernelVars, nameVars, strVars>>
  /\ UNCHANGED <<created, CreateKernels, moduleVars, curIsCtor, idx, ret, Modified, result,
                 runs, array0, moduleAtRun, moduleAtKind>>

(***************************************************************************)
(* createInitOrFiniKernel, lines 223-224.                                  *)
(***************************************************************************)
\* CheckCreateKernels with the option ignored: the kernel is always built
CheckCreateKernels_OptionIgnored ==
  /\ pc = "kernels"
  /\ ret' = ret /\ pc' = "function"
  /\ UNCHANGED <<kernelVars, nameVars, strVars>>
  /\ UNCHANGED <<created, CreateKernels, moduleVars, curIsCtor, idx, Modified, result, runs,
                 array0, moduleAtRun, moduleAtKind>>

CheckCreateKernels ==
  /\ pc = "kernels"
  /\ IF ~CreateKernels
       THEN ret' = TRUE /\ pc' = "return"
       ELSE ret' = ret /\ pc' = "function"
  /\ UNCHANGED <<kernelVars, nameVars, strVars>>
  /\ UNCHANGED <<created, CreateKernels, moduleVars, curIsCtor, idx, Modified, result, runs,
                 array0, moduleAtRun, moduleAtKind>>

(***************************************************************************)
(* createInitOrFiniKernelFunction, lines 59-71, and lines 226-228.         *)
(***************************************************************************)
KernelName(isCtor) == IF isCtor THEN "nvptx$device$init" ELSE "nvptx$device$fini"

\* an object the pass adds to the module: a function, a function body, a global
Creation(what, name) == [what |-> what, name |-> name]

\* FunctionExists with the lookup always failing
FunctionExists_Never(f) == FALSE

\* M.getFunction(InitOrFiniKernelName)
FunctionExists(f) == f.exists

\* addKernelAttrs
KernelAttrs == {<<"nvvm.maxclusterrank", "1">>, <<"nvvm.maxntid", "1">>}

\* NewKernelFn as Function::createWithDefaultAttr leaves it, addKernelAttrs not called
NewKernelFn_NoKernelAttrs ==
  [exists |-> TRUE, byPass |-> TRUE, linkage |-> "weak_odr", attrs |-> {},
   cc |-> "C", body |-> "none"]

NewKernelFn ==
  [exists |-> TRUE, byPass |-> TRUE, linkage |-> "weak_odr", attrs |-> KernelAttrs,
   cc |-> "ptx_kernel", body |-> "none"]

CreateKernelFunction ==
  /\ pc = "function"
  /\ IF FunctionExists(kernelFn[curIsCtor])
       THEN /\ ret' = FALSE /\ pc' = "return"
            /\ kernelFn' = kernelFn
            /\ created' = created
       ELSE /\ ret' = ret /\ pc' = "calls"
            /\ kernelFn' = [kernelFn EXCEPT ![curIsCtor] = NewKernelFn]
            /\ created' = Append(created, Creation("function", KernelName(curIsCtor)))
  /\ UNCHANGED <<kernelVars, nameVars, strVars>>
  /\ UNCHANGED <<CreateKernels, globalArray, entries, used, boundary, curIsCtor, idx,
                 Modified, result, runs, array0, moduleAtRun, moduleAtKind>>

(***************************************************************************)
(* createInitOrFiniCalls, lines 96-173, called at line 230.                *)
(***************************************************************************)
NewBoundary ==
  [exists |-> TRUE, byPass |-> TRUE, init |-> "null", isConstant |-> FALSE,
   linkage |-> "weak", visibility |-> "protected"]

\* GetOrInsertGlobal running its callback whether or not the name is taken
GetOrInsertGlobal_AlwaysNew(g) == NewBoundary

\* M.getOrInsertGlobal(Name, Ty, CreateGlobalCallback)
GetOrInsertGlobal(g) == IF g.exists THEN g ELSE NewBoundary

\* the body: the loop SpecKernel runs, built for IsCtor
KernelBody(isCtor) == IF isCtor THEN "forward" ELSE "reverse"

\* the globals the callbacks of getOrInsertGlobal construct, Begin before End
InsertedGlobals(isCtor) ==
  LET b == BoundaryName(isCtor, TRUE)
      e == BoundaryName(isCtor, FALSE)
  IN (IF GetOrInsertGlobal(boundary[b]) # boundary[b]
        THEN <<Creation("global", b)>> ELSE <<>>)
     \o (IF GetOrInsertGlobal(boundary[e]) # boundary[e]
           THEN <<Creation("global", e)>> ELSE <<>>)

CreateCalls ==
  /\ pc = "calls"
  /\ boundary' = [n \in BoundaryNames |->
                    IF n \in {BoundaryName(curIsCtor, TRUE), BoundaryName(curIsCtor, FALSE)}
                    THEN GetOrInsertGlobal(boundary[n]) ELSE boundary[n]]
  /\ kernelFn' = [kernelFn EXCEPT ![curIsCtor].body = KernelBody(curIsCtor)]
  /\ created' = created \o InsertedGlobals(curIsCtor)
                  \o <<Creation("body", KernelName(curIsCtor))>>
  /\ pc' = "erase"
  /\ UNCHANGED <<kernelVars, nameVars, strVars>>
  /\ UNCHANGED <<CreateKernels, globalArray, entries, used, curIsCtor, idx, ret,
                 Modified, result, runs, array0, moduleAtRun, moduleAtKind>>

(***************************************************************************)
(* createInitOrFiniKernel, lines 232-233.                                  *)
(***************************************************************************)
EraseArray ==
  /\ pc = "erase"
  /\ globalArray' = [globalArray EXCEPT ![curIsCtor] = NoArray("erased")]
  /\ ret' = TRUE
  /\ pc' = "return"
  /\ UNCHANGED <<kernelVars, nameVars, strVars>>
  /\ UNCHANGED <<created, CreateKernels, kernelFn, entries, used, boundary, curIsCtor, idx,
                 Modified, result, runs, array0, moduleAtRun, moduleAtKind>>

(***************************************************************************)
(* lowerCtorsAndDtors, lines 238-240: Modified |= the call's value.        *)
(***************************************************************************)
ReturnKind ==
  /\ pc = "return"
  /\ Modified' = (Modified \/ ret)
  /\ IF curIsCtor
       THEN /\ curIsCtor' = FALSE /\ pc' = "lookup"
            /\ moduleAtKind' = Module
            /\ result' = result /\ runs' = runs
       ELSE /\ curIsCtor' = curIsCtor /\ pc' = "idle"
            /\ moduleAtKind' = moduleAtKind
            /\ result' = (Modified \/ ret) /\ runs' = runs + 1
  /\ UNCHANGED <<kernelVars, nameVars, strVars>>
  /\ UNCHANGED <<created, CreateKernels, moduleVars, idx, ret, array0, moduleAtRun>>

(***************************************************************************)
(* strncpy.  A byte is a number, 0 the terminating NUL; a buffer is a      *)
(* function from the indices 0 .. length - 1 to bytes.                     *)
(***************************************************************************)
\* n is at most MaxN
MaxN == 3

NUL == 0
Bytes == {NUL, 1, 2}

\* src points to MaxN bytes, dest to MaxN + 1: for every n some byte of dest
\* lies at an index >= n
SrcBuffers == [0 .. MaxN - 1 -> Bytes]
DestBuffers == {[k \in 0 .. MaxN |-> b] : b \in {NUL, 2}}
NullPtr == <<>>

\* LIBC_CRASH_ON_NULLPTR(ptr): traps when ptr is null
CrashOnNullptr(p) == p = NullPtr

\* lines 21-24
StrncpyCheck ==
  /\ spc = "check"
  /\ IF count # 0
       THEN IF CrashOnNullptr(dest) THEN checks' = 1 /\ spc' = "crashed"
            ELSE IF CrashOnNullptr(src) THEN checks' = 2 /\ spc' = "crashed"
            ELSE checks' = 2 /\ spc' = "copy"
       ELSE checks' = checks /\ spc' = "copy"
  /\ pos' = 0
  /\ UNCHANGED <<dest, src, count, dest0, srcRead, written, retval>>
  /\ UNCHANGED <<kernelVars, nameVars, passVars>>

\* first operand of the condition at line 27; the second, src[i] != NUL, is
\* evaluated only when it holds
InRange(k, m) == k < m

\* lines 27-28: one evaluation of the condition, and the body if it holds
StrncpyCopy ==
  /\ spc = "copy"
  /\ IF InRange(pos, count)
       THEN /\ srcRead' = srcRead \cup {pos}
            /\ IF src[pos] # NUL
                 THEN /\ dest' = [dest EXCEPT ![pos] = src[pos]]
                      /\ written' = Append(written, pos)
                      /\ pos' = pos + 1
                      /\ spc' = spc
                 ELSE /\ UNCHANGED <<dest, written, pos>>
                      /\ spc' = "pad"
       ELSE /\ UNCHANGED <<dest, written, pos, srcRead>>
            /\ spc' = "pad"
  /\ UNCHANGED <<src, count, dest0, checks, retval>>
  /\ UNCHANGED <<kernelVars, nameVars, passVars>>

\* PadContinues leaving the last byte unwritten
PadContinues_StopEarly(k, m) == k + 1 < m

\* the condition at line 30
PadContinues(k, m) == k < m

\* lines 30-31: one evaluation of the condition, and the body if it holds
StrncpyPad ==
  /\ spc = "pad"
  /\ IF PadContinues(pos, count)
       THEN /\ dest' = [dest EXCEPT ![pos] = NUL]
            /\ written' = Append(written, pos)
            /\ pos' = pos + 1
            /\ spc' = spc
       ELSE /\ UNCHANGED <<dest, written, pos>>
            /\ spc' = "return"
  /\ UNCHANGED <<src, count, dest0, srcRead, checks, retval>>
  /\ UNCHANGED <<kernelVars, nameVars, passVars>>

\* line 32
StrncpyReturn ==
  /\ spc = "return"
  /\ retval' = "dest"
  /\ spc' = "done"
  /\ UNCHANGED <<dest, src, count, pos, dest0, srcRead, written, checks>>
  /\ UNCHANGED <<kernelVars, nameVars, passVars>>

StrIdle ==
  /\ dest = <<>> /\ src = <<>> /\ count = 0 /\ pos = 0 /\ spc = "idle"
  /\ dest0 = <<>> /\ srcRead = {} /\ written = <<>> /\ checks = 0 /\ retval = "none"

\* A call with n <= MaxN; either pointer may be null.
InitStrncpy ==
  /\ dest \in DestBuffers \cup {NullPtr}
  /\ src \in SrcBuffers \cup {NullPtr}
  /\ count \in 0 .. MaxN
  /\ pos = 0 /\ spc = "check"
  /\ dest0 = dest /\ srcRead = {} /\ written = <<>> /\ checks = 0 /\ retval = "none"

\* No module is at hand.
PassIdle ==
  /\ CreateKernels = TRUE
  /\ globalArray = <<>> /\ kernelFn = <<>>
  /\ entries = <<>> /\ used = <<>>
  /\ boundary = <<>>
  /\ pc = "off" /\ curIsCtor = TRUE /\ idx = 1 /\ ret = FALSE
  /\ Modified = FALSE /\ result = FALSE /\ runs = 0
  /\ array0 = <<>> /\ moduleAtRun = <<>> /\ moduleAtKind = <<>>
  /\ created = <<>>

\* Any module the pass may be handed, before its first run.
Init ==
  /\ CreateKernels \in BOOLEAN
  /\ globalArray \in [BOOLEAN -> ArrayStates]
  /\ kernelFn \in [BOOLEAN -> {NoFn, ForeignFn}]
  /\ entries = <<>> /\ used = <<>>
  /\ boundary \in {[n \in BoundaryNames |-> IF n \in S THEN ForeignGlobal ELSE NoGlobal] :
                     S \in ForeignBoundarySets}
  /\ pc = "idle" /\ curIsCtor = TRUE /\ idx = 1 /\ ret = FALSE
  /\ Modified = FALSE /\ result = FALSE /\ runs = 0
  /\ array0 = globalArray /\ moduleAtRun = Module /\ moduleAtKind = Module
  /\ created = <<>>
  /\ KernelIdle /\ NameIdle /\ StrIdle

Next ==
  \/ RunPass \/ LookupArray \/ CheckArray \/ MaterializeRecord \/ MaterializeDone
  \/ CheckCreateKernels \/ CreateKernelFunction \/ CreateCalls \/ EraseArray
  \/ ReturnKind

Spec == Init /\ [][Next]_vars

\* The kernel at run time, the module at rest.
KernelInit == InitKernel /\ NameIdle /\ PassIdle /\ StrIdle
SpecKernel == KernelInit /\ [][KernelNext]_vars

\* The naming of two records, the module at rest.
NameInit == InitName /\ KernelIdle /\ PassIdle /\ StrIdle
NameNext == NameRecords
SpecName == NameInit /\ [][NameNext]_vars

\* One call of strncpy, the module at rest.
StrncpyInit == InitStrncpy /\ KernelIdle /\ NameIdle /\ PassIdle
StrncpyNext == StrncpyCheck \/ StrncpyCopy \/ StrncpyPad \/ StrncpyReturn
SpecStrncpy == StrncpyInit /\ [][StrncpyNext]_vars

(***************************************************************************)
(* Properties of the synthesized kernel (SpecKernel).                      *)
(***************************************************************************)
\* number of slots between two boundary values, start <= end
SlotsOf(s, e) == (e - s) \div SlotSize
ForwardOrder(s, n) == [i \in 1 .. n |-> s + SlotSize * (i - 1)]
ReverseOrder(s, n) == [i \in 1 .. n |-> s + SlotSize * (n - i)]
IsPrefix(a, b) == Len(a) <= Len(b) /\ \A i \in 1 .. Len(a) : a[i] = b[i]

\* C1: when the fini kernel has returned on an array of n >= 1 slots (at a
\* non-null address), it has called every slot exactly once, from slot n-1
\* down to slot 0.
C1_FiniCallsEverySlotInReverse ==
  (kpc = "ret" /\ ~kIsCtor /\ 0 < startVal /\ startVal < endVal)
    => called = ReverseOrder(startVal, SlotsOf(startVal, endVal))

\* C2: on an array of n >= 1 slots the init kernel calls slot 0, 1, ... in
\* increasing order, each once, never loads at an address >= end, and has
\* called all n slots when it leaves the loop.
C2_InitCallsEverySlotForward ==
  (kpc # "idle" /\ kIsCtor /\ startVal < endVal)
    => /\ IsPrefix(called, ForwardOrder(startVal, SlotsOf(startVal, endVal)))
       /\ \A i \in 1 .. Len(called) : called[i] < endVal
       /\ kpc \in {"while.end", "ret"}
            => called = ForwardOrder(startVal, SlotsOf(startVal, endVal))

C2_Witness ==
  /\ kpc = "ret" /\ kIsCtor /\ startVal < endVal
  /\ SlotsOf(startVal, endVal) >= 2
  /\ called = ForwardOrder(startVal, SlotsOf(startVal, endVal))

\* C6: with start = end (no slot) neither kernel enters the loop: no slot is
\* loaded and no callback is called.
C6_EmptyArraySkipsLoop ==
  (kpc # "idle" /\ startVal = endVal) => (called = <<>> /\ kpc # "while.entry")

\* C17: on pointer-aligned boundary values start <= end, start = 0 included,
\* the fini kernel leaves its loop after at most (end - start)/8 calls, its
\* tests being unsigned compares of addresses modulo the address width.
\* Stated for arrays of at least one slot, where the entry test is defined.
C17_FiniKernelTerminates ==
  (kpc # "idle" /\ ~kIsCtor /\ startVal < endVal)
    => Len(called) <= SlotsOf(startVal, endVal)

(***************************************************************************)
(* Properties of the pass (Spec).                                          *)
(***************************************************************************)
InKind == pc \notin {"idle", "off"}

\* the entry-globals added since the current kind began
NewEntries == SubSeq(entries, Len(moduleAtKind.entries) + 1, Len(entries))
\* the entry-globals a list of records is to be turned into
EntriesFor(isCtor, recs) == [i \in 1 .. Len(recs) |-> EntryGlobal(isCtor, recs[i])]
EntriesOfKind(isCtor) == SelectSeq(entries, LAMBDA e : e.isCtor = isCtor)

ValidNonEmpty(a) == a.state = "array" /\ Len(a.recs) > 0

\* outcome (1): array erased, one entry-global per record, entry point with body
Committed(isCtor) ==
  /\ globalArray[isCtor].state = "erased"
  /\ NewEntries = EntriesFor(isCtor, moduleAtKind.arrays[isCtor].recs)
  /\ kernelFn[isCtor].byPass
  /\ kernelFn[isCtor].body = KernelBody(isCtor)

\* C3: with kernel emission enabled, when createInitOrFiniKernel returns the
\* kind is either fully committed or the module is exactly as found.
C3_KindCommitsAtomically ==
  (pc = "return" /\ CreateKernels) => (Committed(curIsCtor) \/ Module = moduleAtKind)

\* C4: with kernel emission disabled and a valid non-empty array, processing
\* the kind creates the entry-globals, creates no function and erases the array.
C4_KernelsOffErasesArray ==
  (pc = "return" /\ ~CreateKernels /\ ValidNonEmpty(moduleAtKind.arrays[curIsCtor]))
    => /\ NewEntries = EntriesFor(curIsCtor, moduleAtKind.arrays[curIsCtor].recs)
       /\ kernelFn = moduleAtKind.fns
       /\ globalArray[curIsCtor].state = "erased"

\* C5: lowerCtorsAndDtors returns true exactly when the module after the call
\* differs from the module before it.
C5_ModifiedIffChanged ==
  (pc = "idle" /\ runs > 0) => (result <=> Module # moduleAtRun)

Unusable(a) ==
  \/ a.state \in {"absent", "erased", "declared", "notarray"}
  \/ a.state = "array" /\ Len(a.recs) = 0

\* C7: while and after a kind is processed whose array is absent, has no
\* initializer, is no constant array or has zero elements, the module is as
\* it was when the kind began, and the kind returns false.
C7_UnusableArrayIsNoOp ==
  (InKind /\ Unusable(moduleAtKind.arrays[curIsCtor]))
    => /\ Module = moduleAtKind
       /\ pc = "return" => ret = FALSE
       /\ pc \in {"lookup", "globals", "return"}

C7_Witness ==
  /\ pc = "return" /\ ~curIsCtor
  /\ moduleAtKind.arrays[curIsCtor].state = "array"
  /\ Len(moduleAtKind.arrays[curIsCtor].recs) = 0
  /\ Module = moduleAtKind /\ ret = FALSE

\* everything the module holds for one kind
KindPart(isCtor) ==
  <<globalArray[isCtor], kernelFn[isCtor], EntriesOfKind(isCtor),
    boundary[BoundaryName(isCtor, TRUE)], boundary[BoundaryName(isCtor, FALSE)]>>

ErasedImpliesReplaced ==
  \A c \in BOOLEAN :
    globalArray[c].state = "erased"
      => /\ EntriesOfKind(c) = EntriesFor(c, array0[c].recs)
         /\ CreateKernels => (kernelFn[c].byPass /\ kernelFn[c].body = KernelBody(c))

NothingAfterErase ==
  \A c \in BOOLEAN : globalArray[c].state = "erased" => KindPart(c)' = KindPart(c)

\* C8: in every state where a kind's array is erased, every record has its
\* entry-global and (kernels enabled) the entry point has its body; and once
\* the array is erased nothing the module holds for that kind changes again.
C8_EraseIsLast == []ErasedImpliesReplaced /\ [][NothingAfterErase]_vars

C8_Witness ==
  /\ pc = "return" /\ globalArray[TRUE].state = "erased"
  /\ Len(array0[TRUE].recs) = 2
  /\ Len(EntriesOfKind(TRUE)) = 2

\* C9: a second run of lowerCtorsAndDtors leaves the module as the first run
\* left it and returns false.
C9_SecondRunChangesNothing ==
  (pc = "idle" /\ runs >= 2) => (Module = moduleAtRun /\ result = FALSE)

(***************************************************************************)
(* Properties of the entry-global names (SpecName).                        *)
(***************************************************************************)
\* C10 as stated: two records with different (function, priority) pairs get
\* different names.
C10_DistinctPairsDistinctNames ==
  (npc = "named" /\ <<nRecA.fn, nRecA.prio>> # <<nRecB.fn, nRecB.prio>>)
    => nNameA # nNameB

\* C10 as amended: two records get different names whenever their priorities
\* differ or their function names differ after '.' is replaced by '_'.
C10_DistinctUpToDots ==
  (npc = "named"
   /\ <<Transform(nRecA.fn), nRecA.prio>> # <<Transform(nRecB.fn), nRecB.prio>>)
    => nNameA # nNameB

C10_Witness ==
  /\ npc = "named"
  /\ nRecA.fn = nRecB.fn /\ nRecA.prio = -1 /\ nRecB.prio = 1
  /\ nNameA # nNameB

\* the decimal text of a signed value: a minus sign before the digits of |p|
SignedToString(p) ==
  IF p < 0 THEN <<"-">> \o DigitString(DecDigits(-p)) ELSE DigitString(DecDigits(p))

EndsWith(str, suffix) ==
  /\ Len(suffix) <= Len(str)
  /\ SubSeq(str, Len(str) - Len(suffix) + 1, Len(str)) = suffix

\* C15: the text that ends the entry-global's name, and that follows
\* ".init_array." / ".fini_array." in its section, is the decimal rendering of
\* the signed priority, negative priorities included.
C15_PriorityTextIsSigned ==
  npc = "named"
    => /\ EndsWith(nNameA, <<"_">> \o SignedToString(nRecA.prio))
       /\ nSecA = (IF nIsCtor THEN <<".", "i", "n", "i", "t", "_", "a", "r", "r", "a", "y", ".">>
                   ELSE <<".", "f", "i", "n", "i", "_", "a", "r", "r", "a", "y", ".">>)
                  \o SignedToString(nRecA.prio)

(***************************************************************************)
(* Properties of the pass, continued (Spec).                               *)
(***************************************************************************)
\* What processing kind isCtor makes of the part of module m that belongs to
\* that kind, and the value it returns; nothing of the other kind is read.
KindOutcome(isCtor, m) ==
  LET a == m.arrays[isCtor]
      f == m.fns[isCtor]
      bs == m.boundary[BoundaryName(isCtor, TRUE)]
      be == m.boundary[BoundaryName(isCtor, FALSE)]
      old == SelectSeq(m.entries, LAMBDA e : e.isCtor = isCtor)
      new == old \o EntriesFor(isCtor, a.recs)
  IN IF Unusable(a) THEN [part |-> <<a, f, old, bs, be>>, ret |-> FALSE]
     ELSE IF ~CreateKernels THEN [part |-> <<a, f, new, bs, be>>, ret |-> TRUE]
     ELSE IF f.exists THEN [part |-> <<a, f, new, bs, be>>, ret |-> FALSE]
     ELSE [part |-> <<NoArray("erased"), [NewKernelFn EXCEPT !.body = KernelBody(isCtor)],
                      new, GetOrInsertGlobal(bs), GetOrInsertGlobal(be)>>,
           ret |-> TRUE]

OutcomeFromOwnKind ==
  pc = "return"
    => [part |-> KindPart(curIsCtor), ret |-> ret] = KindOutcome(curIsCtor, moduleAtRun)

\* a step changes only the part of the kind being processed, and within one
\* run the constructor kind is never processed again after the destructor kind
CtorsBeforeDtors ==
  /\ \A c \in BOOLEAN : KindPart(c)' # KindPart(c) => (InKind /\ curIsCtor = c)
  /\ (InKind /\ ~curIsCtor /\ curIsCtor') => pc' = "idle"
  /\ (~curIsCtor /\ curIsCtor') => pc = "idle"

\* C11: within a run every mutation of the constructor kind precedes every
\* mutation of the destructor kind, and what a kind's processing leaves (its
\* entries, entry point, boundaries, array, return value) is determined by
\* that kind's own part of the module as the run found it.
C11_FixedOrderIndependentKinds == []OutcomeFromOwnKind /\ [][CtorsBeforeDtors]_vars

C11_Witness ==
  /\ pc = "return" /\ ~curIsCtor /\ ret = TRUE /\ CreateKernels
  /\ globalArray[FALSE].state = "erased"
  /\ moduleAtRun.fns[TRUE].exists /\ ValidNonEmpty(moduleAtRun.arrays[TRUE])
  /\ Len(EntriesOfKind(TRUE)) > 0

(***************************************************************************)
(* Properties of the objects the pass creates (Spec).                      *)
(***************************************************************************)
\* how often the pass created an object of that sort and name
TimesCreated(what, name) ==
  Len(SelectSeq(created, LAMBDA e : e = Creation(what, name)))

\* the functions of the entry point's name: the one found plus those created
FunctionsNamed(isCtor) ==
  (IF kernelFn[isCtor].exists /\ ~kernelFn[isCtor].byPass THEN 1 ELSE 0)
  + TimesCreated("function", KernelName(isCtor))

OneEntryPointPerName ==
  \A c \in BOOLEAN :
    /\ FunctionsNamed(c) <= 1
    /\ FunctionsNamed(c) = (IF kernelFn[c].exists THEN 1 ELSE 0)
    /\ TimesCreated("function", KernelName(c)) = (IF kernelFn[c].byPass THEN 1 ELSE 0)
    \* the body is built once for a function the pass created, never otherwise
    /\ TimesCreated("body", KernelName(c))
         = (IF kernelFn[c].byPass /\ ~(pc = "calls" /\ curIsCtor = c) THEN 1 ELSE 0)
    /\ (kernelFn[c].byPass /\ ~(pc = "calls" /\ curIsCtor = c))
         => kernelFn[c].body = KernelBody(c)

\* createInitOrFiniKernelFunction on an existing name: null, nothing created;
\* a function the module held before the pass is never touched
ExistingFunctionKept ==
  /\ (pc = "function" /\ kernelFn[curIsCtor].exists)
       => (kernelFn' = kernelFn /\ created' = created /\ boundary' = boundary
           /\ ret' = FALSE /\ pc' = "return")
  /\ \A c \in BOOLEAN : kernelFn[c] = ForeignFn => kernelFn'[c] = ForeignFn

\* C12: the module holds at most one function per entry-point name;
\* createInitOrFiniKernelFunction creates nothing and yields null when the name
\* is taken; a pre-existing function never gets a body or attributes; the
\* body of a function the pass created is synthesized exactly once.
C12_OneEntryPointPerName == []OneEntryPointPerName /\ [][ExistingFunctionKept]_vars

C12_Witness ==
  /\ runs = 1 /\ pc = "return" /\ ~curIsCtor /\ ret = FALSE
  /\ CreateKernels /\ ValidNonEmpty(globalArray[FALSE])
  /\ kernelFn[TRUE].byPass /\ kernelFn[FALSE] = ForeignFn
  /\ TimesCreated("body", KernelName(TRUE)) = 1

\* C13: every entry-point function the pass created carries
\* nvvm.maxclusterrank = 1, nvvm.maxntid = 1 and the PTX kernel calling
\* convention in every state from its creation on, its body built or not.
C13_CreatedKernelsCarryAttrs ==
  \A c \in BOOLEAN :
    (kernelFn[c].byPass \/ TimesCreated("function", KernelName(c)) > 0
       \/ (kernelFn[c].exists /\ kernelFn[c].body \in {"forward", "reverse"}))
      => /\ <<"nvvm.maxclusterrank", "1">> \in kernelFn[c].attrs
         /\ <<"nvvm.maxntid", "1">> \in kernelFn[c].attrs
         /\ kernelFn[c].cc = "ptx_kernel"

C13_Witness ==
  /\ pc = "calls" /\ ~curIsCtor
  /\ kernelFn[FALSE].byPass /\ kernelFn[FALSE].body = "none"
  /\ kernelFn[TRUE].byPass /\ kernelFn[TRUE].body = "forward"

\* the names appended to llvm.used since the current kind began
NewUsed == SubSeq(used, Len(moduleAtKind.used) + 1, Len(used))

\* C14: for a ConstantArray of n >= 1 records createInitOrFiniGlobals creates
\* exactly n entry-globals in record order; the i-th is constant, its
\* initializer is the i-th record's function, its name is appended to
\* llvm.used, and the record's data field changes nothing of it.
C14_OneEntryGlobalPerRecord ==
  (pc \in {"materialize", "kernels"} /\ ValidNonEmpty(globalArray[curIsCtor]))
    => LET recs == globalArray[curIsCtor].recs
       IN /\ Len(NewEntries) = (IF pc = "kernels" THEN Len(recs) ELSE idx - 1)
          /\ Len(NewEntries) <= Len(recs)
          /\ Len(NewUsed) = Len(NewEntries)
          /\ \A i \in 1 .. Len(NewEntries) :
               /\ NewEntries[i].isCtor = curIsCtor
               /\ NewEntries[i].isConstant
               /\ NewEntries[i].init = recs[i].fn
               /\ NewUsed[i] = NewEntries[i].name
               /\ \A d \in {"null", "obj", "other"} :
                    EntryGlobal(curIsCtor, [recs[i] EXCEPT !.data = d]) = NewEntries[i]

C14_Witness ==
  /\ pc = "kernels" /\ ~curIsCtor
  /\ Len(globalArray[FALSE].recs) = 2
  /\ globalArray[FALSE].recs[1].data # globalArray[FALSE].recs[2].data
  /\ Len(NewEntries) = 2 /\ Len(moduleAtKind.entries) > 0

\* the globals of a boundary's name: the one found plus those created
GlobalsNamed(n) ==
  (IF boundary[n].exists /\ ~boundary[n].byPass THEN 1 ELSE 0) + TimesCreated("global", n)

BoundariesOf(isCtor) ==
  IF isCtor THEN {"__init_array_start", "__init_array_end"}
  ELSE {"__fini_array_start", "__fini_array_end"}

OneGlobalPerBoundary ==
  \A n \in BoundariesOf(TRUE) \cup BoundariesOf(FALSE) :
    /\ GlobalsNamed(n) <= 1
    /\ GlobalsNamed(n) = (IF boundary[n].exists THEN 1 ELSE 0)
    /\ TimesCreated("global", n) = (IF boundary[n].byPass THEN 1 ELSE 0)
    /\ boundary[n].byPass => (boundary[n].init = "null" /\ ~boundary[n].isConstant)

BoundaryReused ==
  \A n \in BoundariesOf(TRUE) \cup BoundariesOf(FALSE) :
    /\ boundary[n].exists => boundary'[n] = boundary[n]
    /\ boundary'[n] # boundary[n] => (pc = "calls" /\ n \in BoundariesOf(curIsCtor))

\* C16: the module never holds more than one global per boundary name; a
\* boundary global that exists when the body is built is left as it is; one
\* the pass creates is null-initialized and not constant; the boundaries of
\* a kind are created only while that kind is processed.
C16_BoundaryGetOrCreate == []OneGlobalPerBoundary /\ [][BoundaryReused]_vars

C16_Witness ==
  /\ runs = 2
  /\ boundary["__fini_array_start"] = ForeignGlobal
  /\ boundary["__fini_array_end"].byPass
  /\ boundary["__init_array_end"].byPass

\* C18: over any sequence of runs each record becomes an entry-global at
\* most once: a kind never has more entry-globals than its original array
\* has records, kernel emission on or off, entry point pre-existing or not.
C18_NoDuplicateMaterialization ==
  \A c \in BOOLEAN : Len(EntriesOfKind(c)) <= Len(array0[c].recs)

\* the pass created a boundary global of that kind
CreatedBoundaryOf(isCtor) ==
  \E n \in BoundariesOf(isCtor) : boundary[n].byPass \/ TimesCreated("global", n) > 0

\* C19: a boundary global the pass created for a kind implies that the pass
\* created that kind's entry-point function; with kernel emission disabled,
\* with the entry-point name taken, or with the array absent, without
\* initializer, malformed or empty, the pass creates no boundary global.
C19_BoundariesOnlyWithKernel ==
  \A c \in BOOLEAN :
    /\ CreatedBoundaryOf(c)
         => (kernelFn[c].byPass /\ TimesCreated("function", KernelName(c)) = 1)
    /\ ~CreateKernels => ~CreatedBoundaryOf(c)
    /\ (kernelFn[c].exists /\ ~kernelFn[c].byPass) => ~CreatedBoundaryOf(c)
    /\ ~ValidNonEmpty(array0[c]) => ~CreatedBoundaryOf(c)

C19_Witness ==
  /\ runs = 2 /\ CreateKernels
  /\ CreatedBoundaryOf(FALSE) /\ kernelFn[FALSE].byPass
  /\ ~CreatedBoundaryOf(TRUE) /\ kernelFn[TRUE] = ForeignFn
  /\ ValidNonEmpty(array0[TRUE])

(***************************************************************************)
(* Properties of strncpy (SpecStrncpy).                                    *)
(***************************************************************************)
\* index of the first NUL of src; the number of its bytes if it holds none
FirstNul(s) ==
  IF \E k \in DOMAIN s : s[k] = 0
    THEN CHOOSE k \in DOMAIN s : s[k] = 0 /\ \A j \in DOMAIN s : j < k => s[j] # 0
    ELSE MaxN
Min(a, b) == IF a < b THEN a ELSE b

\* C20: strncpy(dest, src, n) writes exactly dest[0 .. n-1]: with L the index
\* of the first NUL of src, dest[i] = src[i] for i < min(n, L) and
\* dest[i] = NUL for min(n, L) <= i < n; the bytes of dest from index n on are
\* unchanged, src is not read past index min(n - 1, L), dest is returned, and
\* for n = 0 nothing is written and no pointer is checked for null.
C20_StrncpyCopiesAndPads ==
  /\ spc \in {"copy", "pad", "return", "done"}
       => /\ \A k \in srcRead : k <= Min(count - 1, FirstNul(src))
          /\ \A k \in 1 .. Len(written) : written[k] = k - 1 /\ written[k] < count
          /\ \A k \in DOMAIN dest : k >= count => dest[k] = dest0[k]
          /\ count = 0 => (written = <<>> /\ checks = 0 /\ srcRead = {})
  /\ spc = "done"
       => /\ retval = "dest"
          /\ dest = NullPtr => count = 0
          /\ Len(written) = count
          /\ \A k \in 0 .. count - 1 :
               dest[k] = (IF k < Min(count, FirstNul(src)) THEN src[k] ELSE 0)

C20_Witness ==
  /\ spc = "done" /\ count = 3 /\ FirstNul(src) = 1
  /\ dest0 = [k \in 0 .. 3 |-> 2]
  /\ dest = (0 :> src[0] @@ 1 :> 0 @@ 2 :> 0 @@ 3 :> 2)
  /\ src[2] # 0

====
